---- MODULE Spec2Model ----
(***************************************************************************)
(* Model of app/images.py: the URL validator isValidImageUrl, the by-key   *)
(* resolution upload(key, url) and the provider lookup                     *)
(* getTmdbPosterUrl(tmdbId, mediaType, size), over the shared cache        *)
(* (app.cache: get / set / delete) and the posters configuration.          *)
(*                                                                         *)
(* A call is a sequence of steps, one per cache, network or image          *)
(* operation; each caller records the operations of its call in events.    *)
(*   Spec        one caller, one call after the other, over every input    *)
(*   SpecShared  NumProcs callers at once on the key tmdb_movie_1399_w500  *)
(*                                                                         *)
(* Python values are records [kind, s]: None, a str, or an int (a value    *)
(* that is not a str).  Text is a TLA+ string; Len, \o and SubSeq act on   *)
(* it character by character.                                              *)
(***************************************************************************)
EXTENDS Integers, Sequences, FiniteSets, TLC

(* ----------------------------- bounds ---------------------------------- *)
NumProcs == 2   \* concurrent callers
MaxCalls == 2   \* calls started in one behaviour of the one-caller specification
MaxSharedCalls == 3   \* calls started in one behaviour of the concurrent specification
MaxSide == 3    \* largest width and height of a downloaded image
LenSlack == 1   \* candidate lengths reach from MaxUrlLen - LenSlack to MaxUrlLen + LenSlack
MaxDim == 6     \* largest width and height in the normalizer specification
MaxChecks == 1  \* calls in one behaviour of the validator and of the normalizer specification

Procs == 1..NumProcs

(* --------------------------- Python values ----------------------------- *)
None == [kind |-> "none", s |-> ""]
Str(t) == [kind |-> "str", s |-> t]
IntV(t) == [kind |-> "int", s |-> t]
Bool(b) == [kind |-> "bool", s |-> IF b THEN "True" ELSE "False"]

\* Python truthiness: None, "" and 0 are falsy
Truthy(v) ==
  CASE v.kind = "none" -> FALSE
    [] v.kind = "str" -> Len(v.s) > 0
    [] v.kind = "bool" -> v.s = "True"
    [] OTHER -> v.s # "0"

(* --------------------------- str methods ------------------------------- *)
RECURSIVE Repeat(_, _)
Repeat(c, n) ==
  IF n <= 0 THEN "" ELSE IF n = 1 THEN c
  ELSE Repeat(c, n \div 2) \o Repeat(c, n - (n \div 2))

CharAt(t, i) == SubSeq(t, i, i)

UpperAlphabet == "ABCDEFGHIJKLMNOPQRSTUVWXYZ"
LowerAlphabet == "abcdefghijklmnopqrstuvwxyz"

\* the lower-case letter of each upper-case letter
LowerTable ==
  [c \in {CharAt(UpperAlphabet, i) : i \in 1..Len(UpperAlphabet)} |->
     CharAt(LowerAlphabet, CHOOSE i \in 1..Len(UpperAlphabet) : CharAt(UpperAlphabet, i) = c)]

LowerChar(c) == IF c \in DOMAIN LowerTable THEN LowerTable[c] ELSE c

\* characters i..j of t, each lowered (split in halves to keep the nesting shallow)
RECURSIVE LowerRange(_, _, _)
LowerRange(t, i, j) ==
  IF i > j THEN "" ELSE IF i = j THEN LowerChar(CharAt(t, i))
  ELSE LowerRange(t, i, (i + j) \div 2) \o LowerRange(t, ((i + j) \div 2) + 1, j)

\* str.lower()
Lower(t) == LowerRange(t, 1, Len(t))

IsSpace(c) == c \in {" ", "\t", "\n", "\r", "\f"}

RECURSIVE FirstNonSpace(_, _)
FirstNonSpace(t, i) ==
  IF i > Len(t) \/ ~IsSpace(CharAt(t, i)) THEN i ELSE FirstNonSpace(t, i + 1)

RECURSIVE LastNonSpace(_, _)
LastNonSpace(t, i) ==
  IF i < 1 \/ ~IsSpace(CharAt(t, i)) THEN i ELSE LastNonSpace(t, i - 1)

\* str.strip()
Strip(t) == SubSeq(t, FirstNonSpace(t, 1), LastNonSpace(t, Len(t)))

\* str.startswith(prefix) and str.startswith(tuple of prefixes)
StartsWith(t, prefix) ==
  Len(t) >= Len(prefix) /\ SubSeq(t, 1, Len(prefix)) = prefix

StartsWithAny(t, prefixes) == \E prefix \in prefixes : StartsWith(t, prefix)

(* --------------------------- isValidImageUrl --------------------------- *)
HtmlMarkers == {"<!doctype", "<html", "<!html"}
HttpPrefixes == {"http://", "https://"}
MaxUrlLen == 500

\* mutant: ">=" for ">" in line 20
isValidImageUrl_AtLimit(url) ==
  IF ~Truthy(url) \/ url.kind # "str" THEN FALSE
  ELSE IF StartsWithAny(Lower(Strip(url.s)), HtmlMarkers) THEN FALSE
  ELSE IF ~StartsWithAny(url.s, HttpPrefixes) THEN FALSE
  ELSE IF Len(url.s) >= MaxUrlLen THEN FALSE
  ELSE TRUE

\* lines 7-23
isValidImageUrl(url) ==
  IF ~Truthy(url) \/ url.kind # "str" THEN FALSE
  ELSE IF StartsWithAny(Lower(Strip(url.s)), HtmlMarkers) THEN FALSE
  ELSE IF ~StartsWithAny(url.s, HttpPrefixes) THEN FALSE
  ELSE IF Len(url.s) > MaxUrlLen THEN FALSE
  ELSE TRUE

(* ------------------------------ inputs --------------------------------- *)
\* f"tmdb_{mediaType}_{tmdbId}_{size}"
CacheKey(mediaType, tmdbId, size) ==
  "tmdb_" \o mediaType \o "_" \o tmdbId \o "_" \o size

\* mutant: every mediaType but movie goes to the tv endpoint (else for elif)
Endpoint_ElseTv(mediaType, tmdbId) ==
  IF mediaType = "movie" THEN "https://api.themoviedb.org/3/movie/" \o tmdbId
  ELSE "https://api.themoviedb.org/3/tv/" \o tmdbId

\* f"https://api.themoviedb.org/3/movie/{tmdbId}" and .../3/tv/{tmdbId};
\* "" stands for "no endpoint" (the else branch returns None)
Endpoint(mediaType, tmdbId) ==
  IF mediaType = "movie" THEN "https://api.themoviedb.org/3/movie/" \o tmdbId
  ELSE IF mediaType \in {"episode", "live_episode"} THEN "https://api.themoviedb.org/3/tv/" \o tmdbId
  ELSE ""

\* mutant: a "/" between size and poster path
PosterUrl_Slash(size, posterPath) == "https://image.tmdb.org/t/p/" \o size \o "/" \o posterPath

\* mutant: the URL without its scheme
PosterUrl_NoScheme(size, posterPath) == "image.tmdb.org/t/p/" \o size \o posterPath

\* f"https://image.tmdb.org/t/p/{size}{posterPath}"
PosterUrl(size, posterPath) == "https://image.tmdb.org/t/p/" \o size \o posterPath

\* the arguments callers pass to getTmdbPosterUrl
TmdbIds == {"", "1399"}
MediaTypes == {"movie", "episode", "live_episode", "documentary"}
Sizes == {"w500", "original"}

\* the keys and source URLs callers pass to upload: a key of its own, and a
\* key that getTmdbPosterUrl writes too
UploadKeys == {"plex-thumb-1", CacheKey("movie", "1399", "w500")}
SourceUrls == {"http://plex.local/library/metadata/1/thumb"}

Keys ==
  UploadKeys \cup { CacheKey(mediaType, tmdbId, size) :
                     mediaType \in MediaTypes, tmdbId \in TmdbIds, size \in Sizes }

ValidUrl == "https://cdn.example.com/a.png"
HtmlBody == "<!DOCTYPE html><html><body>502 Bad Gateway</body></html>"
PaddedHtmlBody == " \n<HTML><head></head></HTML>"
\* well-formed URLs of MaxUrlLen and of MaxUrlLen + 1 characters
FullUrl == "https://" \o Repeat("a", MaxUrlLen - 8)
LongUrl == "https://" \o Repeat("a", MaxUrlLen - 7)

\* what another writer may have left under a key of the cache
StoredValues ==
  { Str(ValidUrl), Str(FullUrl), Str(HtmlBody), Str(PaddedHtmlBody), Str("ftp://host/a.png"),
    Str(LongUrl), Str(""), IntV("42") }

\* the cache when the callers start: empty, or one stored entry
StoredEntries ==
  ({"plex-thumb-1"} \X StoredValues)
    \cup ({CacheKey("movie", "1399", "w500")} \X {Str(ValidUrl), Str(HtmlBody)})
    \cup ({CacheKey("documentary", "1399", "w500")} \X {Str(ValidUrl)})

\* config.config["display"]["posters"]: maxSize 0 stands for every falsy
\* maxSize (None, 0)
Configs ==
  [ fit : BOOLEAN, maxSize : {0, 2}, tmdbAPIKey : {None, Str(""), Str("k3y")} ]

\* outcomes of requests.get(url).content in upload: an exception, bytes that
\* are no image, or the bytes of a width x height image
Download(kind, width, height) == [kind |-> kind, width |-> width, height |-> height]
Downloads ==
  { Download("exception", 0, 0), Download("garbage", 0, 0) }
    \cup { Download("image", w, h) : w \in 1..MaxSide, h \in 1..MaxSide }

\* outcomes of the TMDB request: transport failure or timeout, a non-2xx
\* status, a body that is no JSON, a JSON array, or a JSON object whose
\* poster_path is absent (None) or present
Resp(kind, posterPath) == [kind |-> kind, poster_path |-> posterPath]
NoResp == Resp("none", None)
\* a poster_path longer than any the provider is known to send
LongPosterPath == "/" \o Repeat("p", MaxUrlLen) \o ".jpg"
Responses ==
  { Resp("timeout", None), Resp("http404", None), Resp("notjson", None),
    Resp("array", None), Resp("object", None), Resp("object", Str("")),
    Resp("object", Str("/abc.jpg")), Resp("object", Str(LongPosterPath)) }

(* ---------------- inputs of the validator specification ----------------- *)
\* the candidates handed to isValidImageUrl: values that are no string, and
\* strings made of leading whitespace, a head and a filling up to a length
Leads == {"", " ", "\t\n"}
Heads ==
  { "", "http://", "https://", "HTTP://", "Https://", "http:/", "ftp://", "//cdn.example.com/",
    "<!doctype html>", "<!DOCTYPE html>", "<html>", "<HTML lang=", "<!html", "<!HtMl>", "<htm", "<!doc" }
Fill(t, n) == t \o Repeat("a", n - Len(t))
FillLengths == {0, 40} \cup ((MaxUrlLen - LenSlack)..(MaxUrlLen + LenSlack))
Built ==
  { [lead |-> lead, head |-> head, url |-> Str(Fill(lead \o head, n))] :
      lead \in Leads, head \in Heads, n \in FillLengths }
Candidates ==
  { None, IntV("0"), IntV("42"), Str(ValidUrl \o " "), Str("https://host/<html>") }
    \cup { b.url : b \in Built }

(* ---------------- inputs of the normalizer specification ---------------- *)
\* every size up to MaxDim x MaxDim, with and without the square fit, without
\* a maxSize (0) and with one from 1 to beyond the largest side
NormalizeConfigs == [ fit : BOOLEAN, maxSize : 0..(MaxDim + 1), tmdbAPIKey : {None} ]
NormalizeDownloads == { Download("image", w, h) : w \in 1..MaxDim, h \in 1..MaxDim }
NormalizeKey == "plex-thumb-1"

(* ---------------- inputs of the concurrent specification ---------------- *)
\* every caller works on the one key tmdb_movie_1399_w500
SharedKey == CacheKey("movie", "1399", "w500")
SharedStored == {None, Str(""), Str(ValidUrl), Str(HtmlBody)}
SharedConfig == [fit |-> TRUE, maxSize |-> 2, tmdbAPIKey |-> Str("k3y")]
SharedDownloads == { Download("exception", 0, 0), Download("garbage", 0, 0), Download("image", 2, 3) }
SharedResponses == { Resp("timeout", None), Resp("object", Str("/abc.jpg")) }

(* ------------------------------- state --------------------------------- *)
VARIABLES
  cache,    \* app.cache: key -> [value, ttl]; value None when the key is absent
  config,   \* config.config["display"]["posters"]
  started,  \* calls started so far
  pc,       \* per caller: position in its call
  call,     \* per caller: function and arguments of its call
  local,    \* per caller: cachedValue / cachedUrl, response, posterUrl, image size
  result,   \* per caller: how the call ended
  events    \* per caller: the cache, network and image operations of its call, in order

vars == <<cache, config, started, pc, call, local, result, events>>

Absent == [value |-> None, ttl |-> 0]
Entry(v, ttl) == [value |-> v, ttl |-> ttl]

NoCall == [fn |-> "none", key |-> "", url |-> "", tmdbId |-> "", mediaType |-> "", size |-> "",
           candidate |-> None]
NoLocal == [cached |-> None, resp |-> NoResp, download |-> "none", posterUrl |-> "",
            width |-> 0, height |-> 0, fitWidth |-> 0, fitHeight |-> 0,
            newWidth |-> 0, newHeight |-> 0]
Pending == [status |-> "pending", value |-> None]
Returned(v) == [status |-> "returned", value |-> v]
Raised == [status |-> "raised", value |-> None]

Ev(op, key, value, ttl) == [op |-> op, key |-> key, value |-> value, ttl |-> ttl]

\* cache.get / cache.set / cache.delete
CacheGet(c, key) == c[key].value
CacheSet(c, key, value, ttl) == [c EXCEPT ![key] = Entry(value, ttl)]
CacheDelete(c, key) == [c EXCEPT ![key] = Absent]

\* no call started yet
Idle ==
  /\ started = 0
  /\ pc = [p \in Procs |-> "idle"]
  /\ call = [p \in Procs |-> NoCall]
  /\ local = [p \in Procs |-> NoLocal]
  /\ result = [p \in Procs |-> Pending]
  /\ events = [p \in Procs |-> <<>>]

\* the cache with value v under key k (empty when v is None)
CacheWith(k, v) == [x \in Keys |-> IF x = k /\ v # None THEN Entry(v, 3600) ELSE Absent]

Init ==
  /\ \/ cache = CacheWith("", None)
     \/ \E e \in StoredEntries : cache = CacheWith(e[1], e[2])
  /\ config \in Configs
  /\ Idle

InitShared ==
  /\ \E v \in SharedStored : cache = CacheWith(SharedKey, v)
  /\ config = SharedConfig
  /\ Idle

(* ------------------------------ upload --------------------------------- *)
\* mutant: the valid hit is not returned (line 31 lost)
UploadBranch_NoReturn(cachedValue) ==
  IF Truthy(cachedValue) THEN "delete" ELSE "download"

\* mutant: the invalid hit is not cleared (line 35 lost)
UploadBranch_NoDelete(cachedValue) ==
  IF Truthy(cachedValue) /\ isValidImageUrl(cachedValue) THEN "return" ELSE "download"

\* mutant: the hit is returned without the check of line 29
UploadBranch_NoValidate(cachedValue) ==
  IF Truthy(cachedValue) THEN "return" ELSE "download"

\* lines 28-35: where upload goes after cache.get returned cachedValue
UploadBranch(cachedValue) ==
  IF Truthy(cachedValue)
  THEN IF isValidImageUrl(cachedValue) THEN "return" ELSE "delete"
  ELSE "download"

\* lines 25-33: cache.get(key), then return the valid hit or go on
UploadStart(p, key, url) ==
  LET cachedValue == CacheGet(cache, key)
      branch == UploadBranch(cachedValue)
  IN /\ pc[p] = "idle"
     /\ started' = started + 1
     /\ call' = [call EXCEPT ![p] = [NoCall EXCEPT !.fn = "upload", !.key = key, !.url = url]]
     /\ local' = [local EXCEPT ![p] = [NoLocal EXCEPT !.cached = cachedValue]]
     /\ events' = [events EXCEPT ![p] = <<Ev("cache.get", key, cachedValue, 0)>>]
     /\ pc' = [pc EXCEPT ![p] = IF branch = "return" THEN "done" ELSE branch]
     /\ result' = [result EXCEPT ![p] = IF branch = "return" THEN Returned(cachedValue) ELSE Pending]
     /\ UNCHANGED <<cache, config>>

\* mutant: the call ends after the delete, without the download
UploadDelete_Return(p) ==
  /\ pc[p] = "delete"
  /\ cache' = CacheDelete(cache, call[p].key)
  /\ events' = [events EXCEPT ![p] = Append(@, Ev("cache.delete", call[p].key, None, 0))]
  /\ pc' = [pc EXCEPT ![p] = "done"]
  /\ result' = [result EXCEPT ![p] = Returned(None)]
  /\ UNCHANGED <<config, started, call, local>>

\* mutant: the whole cache cleared for the one key
UploadDelete_Clear(p) ==
  /\ pc[p] = "delete"
  /\ cache' = [k \in Keys |-> Absent]
  /\ events' = [events EXCEPT ![p] = Append(@, Ev("cache.delete", call[p].key, None, 0))]
  /\ pc' = [pc EXCEPT ![p] = "download"]
  /\ UNCHANGED <<config, started, call, local, result>>

\* line 35: cache.delete(key)
UploadDelete(p) ==
  /\ pc[p] = "delete"
  /\ cache' = CacheDelete(cache, call[p].key)
  /\ events' = [events EXCEPT ![p] = Append(@, Ev("cache.delete", call[p].key, None, 0))]
  /\ pc' = [pc EXCEPT ![p] = "download"]
  /\ UNCHANGED <<config, started, call, local, result>>

\* mutant: the return None of line 42 lost
DownloadBranch_NoReturn(kind) == "normalize"

\* lines 40-43: an exception of the download returns None; otherwise on to Image.open
DownloadBranch(kind) == IF kind = "exception" THEN "done" ELSE "normalize"

\* lines 37-42: requests.get(url).content, with outcome d; any exception
\* returns None
UploadDownload(p, d) ==
  /\ pc[p] = "download"
  /\ local' = [local EXCEPT ![p] = [@ EXCEPT !.download = d.kind, !.width = d.width, !.height = d.height]]
  /\ events' = [events EXCEPT ![p] = Append(@, Ev("requests.get", call[p].url, None, 0))]
  /\ pc' = [pc EXCEPT ![p] = DownloadBranch(d.kind)]
  /\ result' = [result EXCEPT ![p] = IF DownloadBranch(d.kind) = "done" THEN Returned(None) ELSE Pending]
  /\ UNCHANGED <<cache, config, started, call>>

Max(a, b) == IF a >= b THEN a ELSE b
Abs(a) == IF a >= 0 THEN a ELSE -a

\* lines 47-50: ImageOps.pad to (longestSideLength, longestSideLength)
NeedsPad(width, height, fit) == width # height /\ fit

\* mutant: only the width is padded to the longest side
PadSize_WidthOnly(width, height, fit) ==
  IF NeedsPad(width, height, fit)
  THEN <<Max(width, height), height>>
  ELSE <<width, height>>

PadSize(width, height, fit) ==
  IF NeedsPad(width, height, fit)
  THEN <<Max(width, height), Max(width, height)>>
  ELSE <<width, height>>

\* PIL round_aspect: of floor(number) and ceil(number), the one whose ratio is
\* nearest the aspect (the floor on a tie), but at least 1
\* x = round_aspect(y * aspect), number = maxSize * width / height
RoundWidth(width, height, maxSize) ==
  LET lo == (maxSize * width) \div height
      hi == IF lo * height = maxSize * width THEN lo ELSE lo + 1
      best == IF Abs(width * maxSize - lo * height) <= Abs(width * maxSize - hi * height) THEN lo ELSE hi
  IN Max(best, 1)

\* y = round_aspect(x / aspect), number = maxSize * height / width
RoundHeight(width, height, maxSize) ==
  LET lo == (maxSize * height) \div width
      hi == IF lo * width = maxSize * height THEN lo ELSE lo + 1
      best == IF lo = 0 \/ Abs(width * lo - maxSize * height) * hi <= Abs(width * hi - maxSize * height) * lo
              THEN lo ELSE hi
  IN Max(best, 1)

\* mutant: a resize to maxSize that does not leave a small image alone
ThumbnailSize_Upscale(width, height, maxSize) ==
  IF maxSize = 0 THEN <<width, height>>
  ELSE IF height >= width THEN <<RoundWidth(width, height, maxSize), maxSize>>
  ELSE <<maxSize, RoundHeight(width, height, maxSize)>>

\* lines 51-54: newImage.thumbnail((maxSize, maxSize)) when maxSize is truthy
ThumbnailSize(width, height, maxSize) ==
  IF maxSize = 0 THEN <<width, height>>
  ELSE IF maxSize >= width /\ maxSize >= height THEN <<width, height>>
  ELSE IF height >= width THEN <<RoundWidth(width, height, maxSize), maxSize>>
  ELSE <<maxSize, RoundHeight(width, height, maxSize)>>

\* lines 43-55: the size of newImage when it is saved
NormalizedSize(width, height, cfg) ==
  LET padded == PadSize(width, height, cfg.fit)
  IN ThumbnailSize(padded[1], padded[2], cfg.maxSize)

\* the image operations of lines 43-57 after Image.open succeeded
NormalizeEvents(width, height, cfg) ==
  (IF NeedsPad(width, height, cfg.fit) THEN <<Ev("ImageOps.pad", "", None, 0)>> ELSE <<>>)
  \o (IF cfg.maxSize # 0 THEN <<Ev("Image.thumbnail", "", None, 0)>> ELSE <<>>)
  \o <<Ev("Image.save", "", None, 0)>>

\* mutant: Image.open inside the try of line 37, its failure returning None
NormalizeResult_Caught(kind) == Returned(None)

\* mutant: the upload sink wired again, the uploaded URL returned
NormalizeResult_Uploaded(kind) == IF kind = "garbage" THEN Raised ELSE Returned(Str(ValidUrl))

\* lines 43 and 61: Image.open raises on bytes that are no image and nothing
\* catches it; after a successful decode upload ends with return None
NormalizeResult(kind) == IF kind = "garbage" THEN Raised ELSE Returned(None)

\* lines 43-61: Image.open, then pad, thumbnail, save as PNG, and return None
UploadNormalize(p) ==
  /\ pc[p] = "normalize"
  /\ result' = [result EXCEPT ![p] = NormalizeResult(local[p].download)]
  /\ IF NormalizeResult(local[p].download) = Raised
     THEN /\ events' = [events EXCEPT ![p] = Append(@, Ev("Image.open", "", None, 0))]
          /\ local' = local
     ELSE LET padded == PadSize(local[p].width, local[p].height, config.fit)
              size == NormalizedSize(local[p].width, local[p].height, config)
          IN /\ events' = [events EXCEPT ![p] =
                  Append(@, Ev("Image.open", "", None, 0))
                    \o NormalizeEvents(local[p].width, local[p].height, config)]
             /\ local' = [local EXCEPT ![p] = [@ EXCEPT !.fitWidth = padded[1], !.fitHeight = padded[2],
                                                        !.newWidth = size[1], !.newHeight = size[2]]]
  /\ pc' = [pc EXCEPT ![p] = "done"]
  /\ UNCHANGED <<cache, config, started, call>>

(* -------------------------- getTmdbPosterUrl --------------------------- *)
\* mutant: the id is not checked
TmdbEnabled_KeyOnly(tmdbId, apiKey) == Truthy(apiKey)

\* line 74: the lookup runs only with an id and a configured API key
TmdbEnabled(tmdbId, apiKey) == tmdbId # "" /\ Truthy(apiKey)

\* mutant: the hit is validated as in upload, an invalid one fetched again
TmdbBranch_Validated(cachedUrl, mediaType, tmdbId) ==
  IF Truthy(cachedUrl) /\ isValidImageUrl(cachedUrl) THEN "hit"
  ELSE IF Endpoint(mediaType, tmdbId) = "" THEN "none"
  ELSE "fetch"

\* lines 80-94: where getTmdbPosterUrl goes after cache.get returned cachedUrl
TmdbBranch(cachedUrl, mediaType, tmdbId) ==
  IF Truthy(cachedUrl) THEN "hit"
  ELSE IF Endpoint(mediaType, tmdbId) = "" THEN "none"
  ELSE "fetch"

\* lines 63-94: the guard, cache.get(cacheKey), the hit, the endpoint choice
TmdbStart(p, tmdbId, mediaType, size) ==
  LET cacheKey == CacheKey(mediaType, tmdbId, size)
      cachedUrl == CacheGet(cache, cacheKey)
      branch == TmdbBranch(cachedUrl, mediaType, tmdbId)
  IN /\ pc[p] = "idle"
     /\ started' = started + 1
     /\ call' = [call EXCEPT ![p] = [NoCall EXCEPT !.fn = "getTmdbPosterUrl", !.key = cacheKey,
                                       !.tmdbId = tmdbId, !.mediaType = mediaType, !.size = size]]
     /\ IF ~TmdbEnabled(tmdbId, config.tmdbAPIKey)
        THEN /\ local' = local
             /\ events' = [events EXCEPT ![p] = <<>>]
             /\ pc' = [pc EXCEPT ![p] = "done"]
             /\ result' = [result EXCEPT ![p] = Returned(None)]
        ELSE /\ local' = [local EXCEPT ![p] = [NoLocal EXCEPT !.cached = cachedUrl]]
             /\ events' = [events EXCEPT ![p] = <<Ev("cache.get", cacheKey, cachedUrl, 0)>>]
             /\ pc' = [pc EXCEPT ![p] = IF branch = "fetch" THEN "fetch" ELSE "done"]
             /\ result' = [result EXCEPT ![p] =
                  CASE branch = "hit" -> Returned(cachedUrl)
                    [] branch = "none" -> Returned(None)
                    [] OTHER -> Pending]
     /\ UNCHANGED <<cache, config>>

\* mutant: "if posterPath is None" for "if not posterPath"
PosterPath_EmptyKept(r) ==
  IF r.kind = "object" /\ r.poster_path # None THEN r.poster_path ELSE None

\* lines 99-110: requests.get raises on a transport failure or timeout,
\* raise_for_status on a non-2xx status, json() on a body that is no JSON,
\* data.get on a JSON array; data.get("poster_path") is None when absent.
\* The poster path, or None when the call ends without one.
PosterPath(r) ==
  IF r.kind = "object" /\ Truthy(r.poster_path) THEN r.poster_path ELSE None

\* lines 98-115 and 119-124: the request, with outcome r; every failure
\* returns None
TmdbFetch(p, r) ==
  LET posterPath == PosterPath(r)
  IN /\ pc[p] = "fetch"
     /\ events' = [events EXCEPT ![p] =
          Append(@, Ev("requests.get", Endpoint(call[p].mediaType, call[p].tmdbId), None, 0))]
     /\ IF posterPath = None
        THEN /\ local' = [local EXCEPT ![p] = [@ EXCEPT !.resp = r]]
             /\ pc' = [pc EXCEPT ![p] = "done"]
             /\ result' = [result EXCEPT ![p] = Returned(None)]
        ELSE /\ local' = [local EXCEPT ![p] =
                  [@ EXCEPT !.resp = r, !.posterUrl = PosterUrl(call[p].size, posterPath.s)]]
             /\ pc' = [pc EXCEPT ![p] = "set"]
             /\ result' = result
     /\ UNCHANGED <<cache, config, started, call>>

\* mutant: the URL returned without the write-through of line 117
TmdbSet_NoWrite(p) ==
  /\ pc[p] = "set"
  /\ result' = [result EXCEPT ![p] = Returned(Str(local[p].posterUrl))]
  /\ pc' = [pc EXCEPT ![p] = "done"]
  /\ UNCHANGED <<cache, config, started, call, local, events>>

\* lines 117-118: cache.set(cacheKey, posterUrl, 0); return posterUrl
TmdbSet(p) ==
  /\ pc[p] = "set"
  /\ cache' = CacheSet(cache, call[p].key, Str(local[p].posterUrl), 0)
  /\ events' = [events EXCEPT ![p] = Append(@, Ev("cache.set", call[p].key, Str(local[p].posterUrl), 0))]
  /\ result' = [result EXCEPT ![p] = Returned(Str(local[p].posterUrl))]
  /\ pc' = [pc EXCEPT ![p] = "done"]
  /\ UNCHANGED <<config, started, call, local>>

(* --------------------------- isValidImageUrl --------------------------- *)
\* lines 7-23: a call of isValidImageUrl(url) by a caller of the module
IsValidImageUrl(p, url) ==
  /\ pc[p] = "idle"
  /\ started' = started + 1
  /\ call' = [call EXCEPT ![p] = [NoCall EXCEPT !.fn = "isValidImageUrl", !.candidate = url]]
  /\ local' = [local EXCEPT ![p] = NoLocal]
  /\ events' = [events EXCEPT ![p] = <<>>]
  /\ result' = [result EXCEPT ![p] = Returned(Bool(isValidImageUrl(url)))]
  /\ pc' = [pc EXCEPT ![p] = "done"]
  /\ UNCHANGED <<cache, config>>

\* the call has ended and its caller has the result; the caller is free again
Return(p) ==
  /\ pc[p] = "done"
  /\ pc' = [pc EXCEPT ![p] = "idle"]
  /\ call' = [call EXCEPT ![p] = NoCall]
  /\ local' = [local EXCEPT ![p] = NoLocal]
  /\ result' = [result EXCEPT ![p] = Pending]
  /\ events' = [events EXCEPT ![p] = <<>>]
  /\ UNCHANGED <<cache, config, started>>

\* one caller, one call after the other, over every input
Caller == 1

Next ==
  \/ started < MaxCalls /\ \E key \in UploadKeys, url \in SourceUrls : UploadStart(Caller, key, url)
  \/ UploadDelete(Caller)
  \/ \E d \in Downloads : UploadDownload(Caller, d)
  \/ UploadNormalize(Caller)
  \/ started < MaxCalls /\ \E tmdbId \in TmdbIds, mediaType \in MediaTypes, size \in Sizes :
       TmdbStart(Caller, tmdbId, mediaType, size)
  \/ \E r \in Responses : TmdbFetch(Caller, r)
  \/ TmdbSet(Caller)
  \/ Return(Caller)

Spec == Init /\ [][Next]_vars

\* one caller handing every candidate to isValidImageUrl
InitValidator ==
  /\ cache = CacheWith("", None)
  /\ config = SharedConfig
  /\ Idle

NextValidator ==
  \/ started < MaxChecks /\ \E url \in Candidates : IsValidImageUrl(Caller, url)
  \/ Return(Caller)

SpecValidator == InitValidator /\ [][NextValidator]_vars

\* one call of upload that misses the cache and downloads an image, over
\* every size and every setting of fit and maxSize
InitNormalizer ==
  /\ cache = CacheWith("", None)
  /\ config \in NormalizeConfigs
  /\ Idle

NextNormalizer ==
  \/ started < MaxChecks /\ \E url \in SourceUrls : UploadStart(Caller, NormalizeKey, url)
  \/ \E d \in NormalizeDownloads : UploadDownload(Caller, d)
  \/ UploadNormalize(Caller)
  \/ Return(Caller)

SpecNormalizer == InitNormalizer /\ [][NextNormalizer]_vars

\* NumProcs callers at once, all on the key tmdb_movie_1399_w500
NextShared ==
  \E p \in Procs :
    \/ started < MaxSharedCalls /\ \E url \in SourceUrls : UploadStart(p, SharedKey, url)
    \/ UploadDelete(p)
    \/ \E d \in SharedDownloads : UploadDownload(p, d)
    \/ UploadNormalize(p)
    \/ started < MaxSharedCalls /\ TmdbStart(p, "1399", "movie", "w500")
    \/ \E r \in SharedResponses : TmdbFetch(p, r)
    \/ TmdbSet(p)
    \/ Return(p)

SpecShared == InitShared /\ [][NextShared]_vars

\* upload is straight-line code: once a statement has returned or raised, the
\* next one runs. Each caller that stands before the delete, the download or
\* the image steps takes that step.
UploadProgress(p) ==
  /\ WF_vars(UploadDelete(p))
  /\ WF_vars(\E d \in SharedDownloads : UploadDownload(p, d))
  /\ WF_vars(UploadNormalize(p))

SpecSharedFair == SpecShared /\ \A p \in Procs : UploadProgress(p)

(* ------------------------- reading a call's record ---------------------- *)
IsUpload(p) == call[p].fn = "upload"
IsTmdb(p) == call[p].fn = "getTmdbPosterUrl"
Ops(p) == [i \in 1..Len(events[p]) |-> events[p][i].op]
CountOp(p, op) == Cardinality({i \in 1..Len(events[p]) : events[p][i].op = op})
CacheWrites(p) == CountOp(p, "cache.set") + CountOp(p, "cache.delete")
NetworkCalls(p) == CountOp(p, "requests.get")
ImageOps(p) ==
  {i \in 1..Len(events[p]) : events[p][i].op \in {"Image.open", "ImageOps.pad", "Image.thumbnail", "Image.save"}}

(* -------------------------------- C1 ------------------------------------ *)
\* C1: when cache.get(key) returns a value that passes isValidImageUrl, upload
\* returns exactly that value at once: its only operation is that cache.get
\* (no download, no cache delete, no cache set).
C1_ValidHitReturned ==
  \A p \in Procs :
    (IsUpload(p) /\ isValidImageUrl(local[p].cached)) =>
      /\ pc[p] = "done"
      /\ result[p] = Returned(local[p].cached)
      /\ events[p] = <<Ev("cache.get", call[p].key, local[p].cached, 0)>>
      /\ NetworkCalls(p) = 0 /\ CacheWrites(p) = 0

C1_Witness ==
  \E p \in Procs :
    /\ IsUpload(p) /\ pc[p] = "done"
    /\ local[p].cached = Str(ValidUrl)
    /\ result[p] = Returned(Str(ValidUrl))

(* -------------------------------- C2 ------------------------------------ *)
\* once upload is past line 35: exactly one cache.delete, of the key of the
\* call, right after the cache.get and before any requests.get
DeletedOnceBeforeDownload(p) ==
  /\ CountOp(p, "cache.delete") = 1
  /\ Len(events[p]) >= 2
  /\ events[p][2] = Ev("cache.delete", call[p].key, None, 0)
  /\ \A i \in 1..Len(events[p]) : events[p][i].op = "requests.get" => i > 2

\* C2 as stated: for every stored value that fails isValidImageUrl, the empty
\* string included, upload deletes the key exactly once before it downloads.
C2_AsStated ==
  \A p \in Procs :
    (IsUpload(p) /\ local[p].cached # None /\ ~isValidImageUrl(local[p].cached)
       /\ pc[p] \in {"download", "normalize", "done"}) =>
      DeletedOnceBeforeDownload(p)

\* C2 (amended): for every non-empty (truthy) value that fails isValidImageUrl,
\* upload deletes the key exactly once, before the download starts; an empty
\* value is handled as a miss, with no delete at all.
C2_InvalidHitDeletedOnce ==
  \A p \in Procs :
    (IsUpload(p) /\ ~isValidImageUrl(local[p].cached)) =>
      /\ pc[p] # "idle"
      /\ Truthy(local[p].cached) =>
           /\ pc[p] = "delete" => events[p] = <<Ev("cache.get", call[p].key, local[p].cached, 0)>>
           /\ pc[p] # "delete" => DeletedOnceBeforeDownload(p)
      /\ ~Truthy(local[p].cached) => CountOp(p, "cache.delete") = 0

C2_Witness ==
  \E p \in Procs :
    /\ IsUpload(p) /\ pc[p] = "normalize"
    /\ local[p].cached = Str(HtmlBody)
    /\ Ops(p) = <<"cache.get", "cache.delete", "requests.get">>

(* -------------------------------- C3 ------------------------------------ *)
\* the call of p returned the value its cache.get had read
ReturnedCached(p) ==
  /\ result[p].status = "returned"
  /\ result[p].value # None
  /\ result[p].value = local[p].cached

\* C3 as stated: every value read from the cache and returned by upload or by
\* getTmdbPosterUrl passes isValidImageUrl.
C3_AsStated ==
  \A p \in Procs : ReturnedCached(p) => isValidImageUrl(result[p].value)

\* C3 (amended): every value read from the cache and returned by upload
\* passes isValidImageUrl; getTmdbPosterUrl returns any non-empty cached value
\* as it is, valid or not.
C3_UploadReturnsValidated ==
  \A p \in Procs :
    ReturnedCached(p) =>
      /\ IsUpload(p) => isValidImageUrl(result[p].value)
      /\ IsTmdb(p) => Truthy(result[p].value)

C3_Witness ==
  \E p \in Procs :
    /\ IsUpload(p) /\ ReturnedCached(p)
    /\ result[p].value = Str(FullUrl)

\* getTmdbPosterUrl returning a cached value that fails isValidImageUrl
C3_WitnessUnvalidated ==
  \E p \in Procs :
    /\ IsTmdb(p) /\ ReturnedCached(p)
    /\ ~isValidImageUrl(result[p].value)

(* -------------------------------- C4 ------------------------------------ *)
\* the response carried a non-empty poster_path
GotPoster(p) ==
  /\ local[p].resp.kind = "object"
  /\ local[p].resp.poster_path.kind = "str"
  /\ local[p].resp.poster_path.s # ""

\* C4: when getTmdbPosterUrl ends after a response with a non-empty
\* poster_path, it returns "https://image.tmdb.org/t/p/" + size + poster_path,
\* and its last operation was cache.set of that URL under
\* tmdb_{mediaType}_{tmdbId}_{size} with ttl 0.
C4_WriteThroughBeforeReturn ==
  \A p \in Procs :
    (IsTmdb(p) /\ GotPoster(p) /\ pc[p] = "done") =>
      LET url == Str("https://image.tmdb.org/t/p/" \o call[p].size \o local[p].resp.poster_path.s)
          key == "tmdb_" \o call[p].mediaType \o "_" \o call[p].tmdbId \o "_" \o call[p].size
      IN /\ result[p] = Returned(url)
         /\ CountOp(p, "cache.set") = 1
         /\ events[p][Len(events[p])] = Ev("cache.set", key, url, 0)
         /\ Ops(p) = <<"cache.get", "requests.get", "cache.set">>

C4_Witness ==
  \E p \in Procs :
    /\ IsTmdb(p) /\ pc[p] = "done"
    /\ call[p].tmdbId = "1399" /\ call[p].mediaType = "movie" /\ call[p].size = "w500"
    /\ local[p].resp = Resp("object", Str("/abc.jpg"))
    /\ result[p] = Returned(Str("https://image.tmdb.org/t/p/w500/abc.jpg"))
    /\ cache["tmdb_movie_1399_w500"] = Entry(Str("https://image.tmdb.org/t/p/w500/abc.jpg"), 0)

(* -------------------------------- C5 ------------------------------------ *)
Recognized == {"movie", "episode", "live_episode"}

\* C5 as stated: for every mediaType outside movie, episode and live_episode,
\* whatever the cache holds, getTmdbPosterUrl returns None and makes no request.
C5_AsStated ==
  \A p \in Procs :
    (IsTmdb(p) /\ call[p].mediaType \notin Recognized /\ pc[p] = "done") =>
      /\ result[p] = Returned(None)
      /\ NetworkCalls(p) = 0

\* C5 (amended): for every mediaType outside movie, episode and live_episode,
\* getTmdbPosterUrl makes no request and raises nothing; it returns None,
\* unless it is enabled (id and API key) and finds a non-empty cached value
\* under the composite key, which it returns as it is.
C5_UnrecognizedNoRequest ==
  \A p \in Procs :
    (IsTmdb(p) /\ call[p].mediaType \notin Recognized) =>
      /\ pc[p] = "done"
      /\ NetworkCalls(p) = 0 /\ CacheWrites(p) = 0
      /\ result[p] = IF Truthy(local[p].cached) THEN Returned(local[p].cached) ELSE Returned(None)
      /\ Truthy(local[p].cached) => (call[p].tmdbId # "" /\ Truthy(config.tmdbAPIKey))

C5_Witness ==
  \E p \in Procs :
    /\ IsTmdb(p) /\ call[p].mediaType = "documentary" /\ call[p].tmdbId = "1399"
    /\ Truthy(config.tmdbAPIKey)
    /\ Ops(p) = <<"cache.get">> /\ result[p] = Returned(None)

(* -------------------------------- C6 ------------------------------------ *)
\* C6: when getTmdbPosterUrl finds a non-empty cached value under
\* tmdb_{mediaType}_{tmdbId}_{size}, it returns that value as it is, valid or
\* not, and that cache.get is its only operation (no request, no cache set,
\* no cache delete).
C6_HitReturnedUnvalidated ==
  \A p \in Procs :
    (IsTmdb(p) /\ Truthy(local[p].cached)) =>
      /\ pc[p] = "done"
      /\ result[p] = Returned(local[p].cached)
      /\ events[p] = << Ev("cache.get",
                           "tmdb_" \o call[p].mediaType \o "_" \o call[p].tmdbId \o "_" \o call[p].size,
                           local[p].cached, 0) >>

C6_Witness ==
  \E p \in Procs :
    /\ IsTmdb(p) /\ pc[p] = "done"
    /\ call[p].mediaType = "movie"
    /\ ~isValidImageUrl(local[p].cached)
    /\ result[p] = Returned(Str(HtmlBody))

(* -------------------------------- C7 ------------------------------------ *)
\* C7: with the API key unset (None or empty) or the id empty,
\* getTmdbPosterUrl returns None with no operation at all: no request, no
\* cache.get, no cache.set.
C7_DisabledIsNoOp ==
  \A p \in Procs :
    (IsTmdb(p) /\ (call[p].tmdbId = "" \/ config.tmdbAPIKey \in {None, Str("")})) =>
      /\ pc[p] = "done"
      /\ result[p] = Returned(None)
      /\ events[p] = <<>>

\* no API key, and a value stored under the key of the call
C7_Witness ==
  \E p \in Procs :
    /\ IsTmdb(p) /\ pc[p] = "done" /\ call[p].tmdbId = "1399" /\ config.tmdbAPIKey = None
    /\ cache[call[p].key].value # None
    /\ result[p] = Returned(None)

\* an API key, and the empty id
C7_WitnessEmptyId ==
  \E p \in Procs :
    /\ IsTmdb(p) /\ pc[p] = "done" /\ call[p].tmdbId = "" /\ config.tmdbAPIKey = Str("k3y")
    /\ call[p].mediaType = "episode" /\ call[p].size = "original"
    /\ result[p] = Returned(None)

(* -------------------------------- C8 ------------------------------------ *)
\* C8: after any response that is not a JSON object with a non-empty
\* poster_path (exception or timeout, non-2xx status, body that is no JSON,
\* JSON array, poster_path absent or empty), getTmdbPosterUrl returns None,
\* raises nothing, and has written nothing to the cache.
C8_FailedFetchReturnsNone ==
  \A p \in Procs :
    (IsTmdb(p) /\ local[p].resp # NoResp /\ ~GotPoster(p)) =>
      /\ pc[p] = "done"
      /\ result[p] = Returned(None)
      /\ Ops(p) = <<"cache.get", "requests.get">>
      /\ CacheWrites(p) = 0

C8_Witness ==
  \E p \in Procs :
    /\ IsTmdb(p) /\ local[p].resp = Resp("object", Str("")) /\ result[p] = Returned(None)

C8_WitnessHttpError ==
  \E p \in Procs :
    /\ IsTmdb(p) /\ local[p].resp = Resp("http404", None) /\ result[p] = Returned(None)

(* -------------------------------- C9 ------------------------------------ *)
\* C9: when the downloaded bytes are no image, upload ends by raising (the
\* error of Image.open reaches the caller): it returns neither None nor a URL,
\* after a miss as well as after a cleared invalid entry.
C9_DecodeFailureRaises ==
  \A p \in Procs :
    (IsUpload(p) /\ local[p].download = "garbage" /\ pc[p] = "done") =>
      /\ result[p] = Raised
      /\ events[p][Len(events[p])].op = "Image.open"

\* after a cleared invalid entry
C9_Witness ==
  \E p \in Procs :
    /\ IsUpload(p) /\ result[p] = Raised
    /\ Ops(p) = <<"cache.get", "cache.delete", "requests.get", "Image.open">>

\* after a miss
C9_WitnessMiss ==
  \E p \in Procs :
    /\ IsUpload(p) /\ result[p] = Raised
    /\ local[p].cached = None
    /\ Ops(p) = <<"cache.get", "requests.get", "Image.open">>

(* -------------------------------- C10 ----------------------------------- *)
\* C10: when the download raises, upload returns None (raises nothing) and
\* none of Image.open, ImageOps.pad, Image.thumbnail, Image.save runs.
C10_DownloadFailureReturnsNone ==
  \A p \in Procs :
    (IsUpload(p) /\ local[p].download = "exception") =>
      /\ pc[p] = "done"
      /\ result[p] = Returned(None)
      /\ ImageOps(p) = {}
      /\ events[p][Len(events[p])] = Ev("requests.get", call[p].url, None, 0)

C10_Witness ==
  \E p \in Procs :
    /\ IsUpload(p) /\ pc[p] = "done" /\ local[p].download = "exception"
    /\ Ops(p) = <<"cache.get", "cache.delete", "requests.get">>

(* -------------------------------- C11 ----------------------------------- *)
\* the states of the state machine of upload, read off the record of the call
\* of p: CACHE_MISS is a cache.get that returned nothing (a falsy value),
\* CACHE_INVALID one that returned a value failing isValidImageUrl
CacheMiss(p) == ~Truthy(local[p].cached)
CacheInvalid(p) == Truthy(local[p].cached) /\ ~isValidImageUrl(local[p].cached)
DownloadOk(p) == local[p].download \in {"garbage", "image"}
LastOp(p) == Ops(p)[Len(events[p])]

\* the terminals of the state machine the finished call of p stands in
UploadTerminals(p) ==
  { t \in {"CACHE_VALID", "DOWNLOAD_FAIL", "NORMALIZE_FAIL", "DISCARD"} :
      \/ /\ t = "CACHE_VALID"
         /\ Ops(p) = <<"cache.get">>
         /\ isValidImageUrl(local[p].cached)
         /\ result[p] = Returned(local[p].cached)
      \/ /\ t = "DOWNLOAD_FAIL"
         /\ LastOp(p) = "requests.get"
         /\ ~DownloadOk(p)
         /\ result[p] = Returned(None)
      \/ /\ t = "NORMALIZE_FAIL"
         /\ LastOp(p) = "Image.open"
         /\ result[p] = Raised
      \/ /\ t = "DISCARD"
         /\ LastOp(p) = "Image.save"
         /\ result[p] = Returned(None) }

\* the operations of the call of p so far are a prefix of one path of the
\* state machine
UploadOnPath(p) ==
  LET ops == Ops(p)
      n == Len(events[p])
  IN /\ n >= 1
     /\ \A i \in 1..n : ops[i] = "cache.get" <=> i = 1
     /\ \A i \in 1..n : ops[i] = "cache.delete" => i = 2 /\ CacheInvalid(p)
     /\ \A i \in 1..n : ops[i] = "requests.get" =>
          \/ i = 2 /\ CacheMiss(p)
          \/ i = 3 /\ ops[2] = "cache.delete"
     /\ \A i \in 1..n : ops[i] = "Image.open" =>
          i > 1 /\ ops[i - 1] = "requests.get" /\ DownloadOk(p)
     /\ \A i \in 1..n : ops[i] \in {"ImageOps.pad", "Image.thumbnail", "Image.save"} =>
          \E j \in 1..(i - 1) : ops[j] = "Image.open"
     /\ CountOp(p, "cache.delete") <= 1 /\ CountOp(p, "requests.get") <= 1
     /\ CountOp(p, "Image.open") <= 1 /\ CountOp(p, "cache.set") = 0
     /\ pc[p] = "done" <=> result[p] # Pending
     /\ pc[p] = "done" => Cardinality(UploadTerminals(p)) = 1

\* C11: every call of upload follows one path of the state machine: cache.get
\* comes first, cache.delete only after an invalid hit, the download only
\* after a miss or the delete, the image steps only after a download that
\* succeeded; and every call that has started ends, in exactly one of the
\* terminals CACHE_VALID, DOWNLOAD_FAIL, NORMALIZE_FAIL, DISCARD.
C11_OnePathToOneTerminal ==
  /\ [](\A p \in Procs : IsUpload(p) => UploadOnPath(p))
  /\ \A p \in Procs :
       (IsUpload(p) /\ pc[p] # "done") ~>
         (IsUpload(p) /\ pc[p] = "done" /\ Cardinality(UploadTerminals(p)) = 1)

C11_Witness ==
  \E p \in Procs :
    /\ IsUpload(p) /\ pc[p] = "done"
    /\ UploadTerminals(p) = {"DISCARD"}
    /\ Ops(p) = <<"cache.get", "cache.delete", "requests.get", "Image.open",
                  "ImageOps.pad", "Image.thumbnail", "Image.save">>

(* -------------------------------- C12 ----------------------------------- *)
\* C12: upload returns a URL only on the valid-hit path: the value it returns
\* is None unless its one operation was a cache.get whose value passed
\* isValidImageUrl, and then it returns that value; after a miss or after the
\* delete of an invalid entry it returns None, also when the download and all
\* image steps succeeded.
C12_UrlOnlyFromValidHit ==
  \A p \in Procs :
    (IsUpload(p) /\ result[p].status = "returned") =>
      /\ result[p].value # None =>
           /\ Ops(p) = <<"cache.get">>
           /\ result[p].value = local[p].cached
           /\ isValidImageUrl(local[p].cached)
      /\ (CacheMiss(p) \/ CountOp(p, "cache.delete") > 0) => result[p].value = None
      /\ CountOp(p, "Image.save") > 0 => result[p].value = None

C12_Witness ==
  \E p \in Procs :
    /\ IsUpload(p) /\ result[p] = Returned(None)
    /\ local[p].cached = Str(HtmlBody)
    /\ local[p].download = "image"
    /\ CountOp(p, "cache.delete") = 1
    /\ LastOp(p) = "Image.save"

\* the same on the miss path
C12_WitnessMiss ==
  \E p \in Procs :
    /\ IsUpload(p) /\ result[p] = Returned(None)
    /\ local[p].cached = None
    /\ local[p].download = "image"
    /\ LastOp(p) = "Image.save"

(* -------------------------------- C13 ----------------------------------- *)
IsValidation(p) == call[p].fn = "isValidImageUrl"

\* the four reasons of rejection
Rejected(url) ==
  \/ url.kind # "str" \/ url.s = ""
  \/ \E marker \in HtmlMarkers : StartsWith(Lower(Strip(url.s)), marker)
  \/ ~(StartsWith(url.s, "http://") \/ StartsWith(url.s, "https://"))
  \/ Len(url.s) > MaxUrlLen

\* C13: isValidImageUrl answers every candidate, a value that is no string
\* included, with True or False; it answers False exactly when the candidate
\* is empty or no string, or its stripped lower-cased text starts with
\* <!doctype, <html or <!html, or it does not start with http:// or https://,
\* or it is longer than 500 characters. Of the candidates built from leading
\* whitespace, a head and a filling, exactly those without leading whitespace,
\* with head http:// or https:// and of at most 500 characters are answered
\* True; the well-formed URL of exactly 500 characters is one of them.
C13_RejectsExactly ==
  \A p \in Procs :
    (IsValidation(p) /\ pc[p] = "done") =>
      LET url == call[p].candidate
      IN /\ result[p] \in {Returned(Bool(TRUE)), Returned(Bool(FALSE))}
         /\ result[p] = Returned(Bool(FALSE)) <=> Rejected(url)
         /\ \A b \in Built :
              url = b.url =>
                (result[p] = Returned(Bool(TRUE)) <=>
                   b.lead = "" /\ b.head \in {"http://", "https://"} /\ Len(url.s) <= MaxUrlLen)
         /\ url = Str(FullUrl) => result[p] = Returned(Bool(TRUE))

C13_Witness ==
  \E p \in Procs :
    /\ IsValidation(p) /\ pc[p] = "done"
    /\ call[p].candidate = Str(FullUrl)
    /\ Len(FullUrl) = MaxUrlLen
    /\ result[p] = Returned(Bool(TRUE))

\* a candidate that is no string, and one that is one character too long
C13_WitnessNoString ==
  \E p \in Procs :
    /\ IsValidation(p) /\ pc[p] = "done"
    /\ call[p].candidate = IntV("42")
    /\ result[p] = Returned(Bool(FALSE))

C13_WitnessTooLong ==
  \E p \in Procs :
    /\ IsValidation(p) /\ pc[p] = "done"
    /\ call[p].candidate = Str(LongUrl)
    /\ result[p] = Returned(Bool(FALSE))

(* -------------------------------- C14 ----------------------------------- *)
\* the call of p has saved its normalized image
Normalized(p) == IsUpload(p) /\ pc[p] = "done" /\ LastOp(p) = "Image.save"

\* the image is square after the fit step whenever fit is on
SquareWhenFit(p) ==
  (config.fit /\ local[p].width # local[p].height) =>
    /\ local[p].fitWidth = local[p].fitHeight
    /\ local[p].newWidth = local[p].newHeight

\* C14 as stated: with fit on and width # height the output is square; with a
\* maxSize the longest output side is at most maxSize and the ratio of width
\* to height of the output is that of the image that entered the resize.
C14_AsStated ==
  \A p \in Procs :
    Normalized(p) =>
      /\ SquareWhenFit(p)
      /\ config.maxSize # 0 =>
           /\ Max(local[p].newWidth, local[p].newHeight) <= config.maxSize
           /\ local[p].newWidth * local[p].fitHeight = local[p].newHeight * local[p].fitWidth

\* C14 (amended): with fit on and width # height the output is square; with a
\* maxSize the longest output side is at most maxSize, and the ratio is kept
\* up to whole pixels: both sides are at least 1, an image that was shrunk has
\* its longer side equal to maxSize and its shorter side less than one pixel
\* away from the exact proportional length, and a square image stays square.
C14_SquareAndBounded ==
  \A p \in Procs :
    Normalized(p) =>
      LET w == local[p].fitWidth
          h == local[p].fitHeight
          x == local[p].newWidth
          y == local[p].newHeight
          m == config.maxSize
      IN /\ SquareWhenFit(p)
         /\ x >= 1 /\ y >= 1
         /\ m # 0 =>
              /\ Max(x, y) <= m
              /\ <<x, y>> # <<w, h>> =>
                   /\ Max(x, y) = m
                   /\ h >= w => (y = m /\ Abs(x * h - m * w) < h)
                   /\ w >= h => (x = m /\ Abs(y * w - m * h) < w)
              /\ w = h => x = y

C14_Witness ==
  \E p \in Procs :
    /\ Normalized(p)
    /\ config.fit /\ config.maxSize = 2
    /\ local[p].width = 2 /\ local[p].height = 3
    /\ local[p].fitWidth = 3 /\ local[p].fitHeight = 3
    /\ local[p].newWidth = 2 /\ local[p].newHeight = 2

\* without the fit the ratio 2:3 becomes 1:2
C14_WitnessRounded ==
  \E p \in Procs :
    /\ Normalized(p)
    /\ ~config.fit /\ config.maxSize = 2
    /\ local[p].width = 2 /\ local[p].height = 3
    /\ local[p].newWidth = 1 /\ local[p].newHeight = 2

(* -------------------------------- C15 ----------------------------------- *)
\* C15: the steps do nothing when there is nothing to do: with fit on and
\* width = height, ImageOps.pad is not called and the size after the fit step
\* is the size of the input; when both sides of the image entering the resize
\* step are at most maxSize, the output has that same size; and no side of the
\* output is ever longer than the side that entered the resize step.
C15_NoOpWhenNotNeeded ==
  \A p \in Procs :
    Normalized(p) =>
      /\ (config.fit /\ local[p].width = local[p].height) =>
           /\ CountOp(p, "ImageOps.pad") = 0
           /\ local[p].fitWidth = local[p].width
           /\ local[p].fitHeight = local[p].height
      /\ (config.maxSize # 0 /\ local[p].fitWidth <= config.maxSize
            /\ local[p].fitHeight <= config.maxSize) =>
           /\ local[p].newWidth = local[p].fitWidth
           /\ local[p].newHeight = local[p].fitHeight
      /\ local[p].newWidth <= local[p].fitWidth
      /\ local[p].newHeight <= local[p].fitHeight

C15_Witness ==
  \E p \in Procs :
    /\ Normalized(p)
    /\ config.fit /\ config.maxSize = 5
    /\ local[p].width = 3 /\ local[p].height = 3
    /\ Ops(p) = <<"cache.get", "requests.get", "Image.open", "Image.thumbnail", "Image.save">>
    /\ local[p].newWidth = 3 /\ local[p].newHeight = 3

\* an image of 2 x 3 with a maxSize of 6 is not enlarged
C15_WitnessNoUpscale ==
  \E p \in Procs :
    /\ Normalized(p)
    /\ ~config.fit /\ config.maxSize = 6
    /\ local[p].width = 2 /\ local[p].height = 3
    /\ local[p].newWidth = 2 /\ local[p].newHeight = 3

(* -------------------------------- C16 ----------------------------------- *)
\* a step of the upload call of p
UploadStep(p) == call'[p].fn = "upload" /\ events'[p] # events[p]

\* C16: no step of upload calls cache.set; a step of upload changes the cache
\* only by the delete of the key of the call, and only after a cache.get of
\* that call returned a truthy value failing isValidImageUrl; after a valid
\* hit or a miss no step changes the cache at all; and no step, a failing
\* download or decode included, changes the entry of any other key.
C16_OnlyDeletesItsInvalidKey ==
  [][ \A p \in Procs :
        UploadStep(p) =>
          /\ \A i \in 1..Len(events'[p]) : events'[p][i].op # "cache.set"
          /\ \A k \in Keys \ {call'[p].key} : cache'[k] = cache[k]
          /\ cache' # cache =>
               /\ pc[p] = "delete" /\ CacheInvalid(p)
               /\ cache' = CacheDelete(cache, call[p].key)
          /\ (~Truthy(local'[p].cached) \/ isValidImageUrl(local'[p].cached)) => cache' = cache
    ]_vars

C16_Witness ==
  \E p \in Procs :
    /\ IsUpload(p) /\ result[p] = Raised
    /\ call[p].key = "plex-thumb-1"
    /\ local[p].cached = Str(HtmlBody)
    /\ Ops(p) = <<"cache.get", "cache.delete", "requests.get", "Image.open">>
    /\ cache["plex-thumb-1"] = Absent
    /\ cache[SharedKey] = Entry(Str(PosterUrl("w500", "/abc.jpg")), 0)

(* -------------------------------- C17 ----------------------------------- *)
\* every call of the behaviour is a getTmdbPosterUrl call, one per caller, all
\* for movie 1399 at w500, begun before any of them was handed back
TmdbOnly == started = NumProcs /\ \A p \in Procs : IsTmdb(p)

\* the provider answered the request of p, if p sent one, with /abc.jpg
Answered(p) == NetworkCalls(p) > 0 => local[p].resp = Resp("object", Str("/abc.jpg"))

\* what a single call writes and returns
SingleCallUrl == Str(PosterUrl("w500", "/abc.jpg"))

\* C17: when the callers run getTmdbPosterUrl for the same id, mediaType and
\* size at once, without any lock, and the provider answers each request with
\* the same poster_path: every cache.set writes the same URL under the same
\* key with ttl 0, all calls that have ended returned the same value, each
\* call that missed fetched, wrote and returned that URL (several may), and
\* once all calls have ended after a miss the cache holds under the key the
\* entry a single call would have written.
C17_ConcurrentFetchesAgree ==
  (TmdbOnly /\ \A p \in Procs : Answered(p)) =>
    /\ \A p \in Procs : \A i \in 1..Len(events[p]) :
         events[p][i].op = "cache.set" => events[p][i] = Ev("cache.set", SharedKey, SingleCallUrl, 0)
    /\ \A p, q \in Procs :
         (pc[p] = "done" /\ pc[q] = "done") =>
           result[p].status = "returned" /\ result[p] = result[q]
    /\ \A p \in Procs :
         (pc[p] = "done" /\ CacheMiss(p)) =>
           /\ Ops(p) = <<"cache.get", "requests.get", "cache.set">>
           /\ result[p] = Returned(SingleCallUrl)
    /\ ((\A p \in Procs : pc[p] = "done") /\ (\E p \in Procs : CacheMiss(p))) =>
         cache[SharedKey] = Entry(SingleCallUrl, 0)

\* two callers both missed, both fetched and both wrote
C17_Witness ==
  /\ TmdbOnly
  /\ \E p, q \in Procs :
       /\ p # q
       /\ pc[p] = "done" /\ pc[q] = "done"
       /\ CacheMiss(p) /\ CacheMiss(q)
       /\ Ops(p) = <<"cache.get", "requests.get", "cache.set">>
       /\ Ops(q) = <<"cache.get", "requests.get", "cache.set">>
       /\ result[p] = Returned(SingleCallUrl) /\ result[q] = Returned(SingleCallUrl)
       /\ cache[SharedKey] = Entry(SingleCallUrl, 0)

(* -------------------------------- C18 ----------------------------------- *)
\* C18: upload never deletes a valid entry: at every cache.delete(key) of
\* upload, under every interleaving with the other callers between its
\* cache.get and its cache.delete, the value stored under the key at that
\* moment fails isValidImageUrl.
C18_NeverDeletesValidEntry ==
  [][ \A p \in Procs :
        (IsUpload(p) /\ pc[p] = "delete" /\ pc'[p] # "delete") =>
          ~isValidImageUrl(CacheGet(cache, call[p].key))
    ]_vars

\* a caller is about to delete, on the strength of the HTML body it read, the
\* provider URL another caller has written since
C18_StaleDelete ==
  \E p \in Procs :
    /\ IsUpload(p) /\ pc[p] = "delete"
    /\ local[p].cached = Str(HtmlBody)
    /\ cache[call[p].key] = Entry(SingleCallUrl, 0)
    /\ isValidImageUrl(SingleCallUrl)

(* -------------------------------- C19 ----------------------------------- *)
\* the values getTmdbPosterUrl can write: the CDN base followed by a size
IsProviderUrl(v) ==
  v.kind = "str" /\ \E size \in Sizes : StartsWith(v.s, "https://image.tmdb.org/t/p/" \o size)

\* C19 as stated: every value stored with cache.set passes isValidImageUrl,
\* for every size and every poster_path of the provider, and an upload that
\* reads such a value returns it at once and does not delete it.
C19_AsStated ==
  \A p \in Procs :
    /\ \A i \in 1..Len(events[p]) :
         events[p][i].op = "cache.set" => isValidImageUrl(events[p][i].value)
    /\ (IsUpload(p) /\ IsProviderUrl(local[p].cached)) =>
         /\ pc[p] = "done" /\ result[p] = Returned(local[p].cached)
         /\ CountOp(p, "cache.delete") = 0

\* C19 (amended): every value stored with cache.set is the provider URL of the
\* call, stored with ttl 0 under the key of the call; it passes
\* isValidImageUrl exactly when it has at most 500 characters. An upload that
\* reads a stored provider URL of at most 500 characters returns it at once
\* and leaves the entry in place; one that reads a longer provider URL does
\* not return it and deletes the entry.
C19_StoredUrlValidUpToLimit ==
  \A p \in Procs :
    /\ \A i \in 1..Len(events[p]) :
         events[p][i].op = "cache.set" =>
           /\ events[p][i] = Ev("cache.set", call[p].key, Str(local[p].posterUrl), 0)
           /\ IsProviderUrl(events[p][i].value)
           /\ isValidImageUrl(events[p][i].value) <=> Len(events[p][i].value.s) <= MaxUrlLen
    /\ (IsUpload(p) /\ IsProviderUrl(local[p].cached)) =>
         IF Len(local[p].cached.s) <= MaxUrlLen
         THEN /\ pc[p] = "done" /\ result[p] = Returned(local[p].cached)
              /\ Ops(p) = <<"cache.get">>
              /\ cache[call[p].key].value = local[p].cached
         ELSE /\ result[p] # Returned(local[p].cached)
              /\ pc[p] # "delete" => CountOp(p, "cache.delete") = 1

\* an upload returns the URL an earlier getTmdbPosterUrl call stored
C19_Witness ==
  \E p \in Procs :
    /\ IsUpload(p) /\ pc[p] = "done"
    /\ call[p].key = CacheKey("movie", "1399", "w500")
    /\ local[p].cached = SingleCallUrl
    /\ result[p] = Returned(SingleCallUrl)
    /\ cache[call[p].key] = Entry(SingleCallUrl, 0)

\* an upload deletes the over-long URL an earlier getTmdbPosterUrl call stored
C19_WitnessTooLong ==
  \E p \in Procs :
    /\ IsUpload(p)
    /\ local[p].cached = Str(PosterUrl("w500", LongPosterPath))
    /\ CountOp(p, "cache.delete") = 1
    /\ cache[call[p].key] = Absent

====
